---- MODULE Spec2Model ----
(***************************************************************************)
(* Model of deployment-scaling/main.py: the option checks run at import,   *)
(* buildDeploymentData (list deployments, read release labels, fetch the   *)
(* Helm release and scan it for a HorizontalPodAutoscaler), the            *)
(* confirmation prompt of main() and scaleDeployment (target computation,  *)
(* directional guard, patch call).                                         *)
(*                                                                         *)
(* Python values are modelled as follows.  A string the code parses        *)
(* (--replicas, the prompt answer) is a sequence of code points;            *)
(* None and "" are both falsy and the code only tests such a value for     *)
(* truthiness before using it, so both are the empty sequence.  A value    *)
(* that is a string or None (namespace, release label value) is a sequence *)
(* of at most one TLA+ string: <<>> is None and <<s>> is the string s, so  *)
(* None differs from every string, "None" and "" included.  A None entry   *)
(* of a resource list is <<>> as well.  A dict is a function whose DOMAIN  *)
(* is its key set, so a missing key is a key outside DOMAIN.               *)
(***************************************************************************)
EXTENDS Integers, Sequences, FiniteSets, TLC

\* ---------------------------------------------------------------- bounds
\* largest live replica count / HPA minReplicas / --replicas digit drawn
MaxReplicas == 2
\* longest resource list of a Helm release revision
MaxResources == 2

\* longest resource list handed to helmReplicaCount on its own
MaxScanResources == 3

\* ------------------------------------------------------------ characters
\* A character is its Unicode code point and a string the code parses is a
\* sequence of code points.  The tables below are those of the Unicode
\* database of the interpreter the script runs on.

\* the printable ASCII characters in code point order: U+0020..U+005F and
\* U+0061..U+007E; U+0060 cannot be written in a TLA+ string and no literal
\* below needs it
AsciiFrom32 ==
    <<" ", "!", "\"", "#", "$", "%", "&", "'", "(", ")", "*", "+", ",", "-",
      ".", "/", "0", "1", "2", "3", "4", "5", "6", "7", "8", "9", ":", ";",
      "<", "=", ">", "?", "@", "A", "B", "C", "D", "E", "F", "G", "H", "I",
      "J", "K", "L", "M", "N", "O", "P", "Q", "R", "S", "T", "U", "V", "W",
      "X", "Y", "Z", "[", "\\", "]", "^", "_">>
AsciiFrom97 ==
    <<"a", "b", "c", "d", "e", "f", "g", "h", "i", "j", "k", "l", "m", "n",
      "o", "p", "q", "r", "s", "t", "u", "v", "w", "x", "y", "z", "{", "|",
      "}", "~">>

\* ord(c) of a printable ASCII character
ord(c) ==
    IF \E n \in 1..Len(AsciiFrom32) : AsciiFrom32[n] = c
    THEN 31 + CHOOSE n \in 1..Len(AsciiFrom32) : AsciiFrom32[n] = c
    ELSE 96 + CHOOSE n \in 1..Len(AsciiFrom97) : AsciiFrom97[n] = c

\* the string written with the printable ASCII characters cs
Text(cs) == [i \in 1..Len(cs) |-> ord(cs[i])]

\* vertical tab and no-break space
VerticalTab == 11
NoBreakSpace == 160

\* the characters int() gives a meaning besides digits and whitespace
Minus == ord("-")
Plus == ord("+")
Underscore == ord("_")

\* capital sigma, final small sigma, small sigma
CapitalSigma == 931
FinalSmallSigma == 962
SmallSigma == 963

\* the characters int() strips from both ends of its argument: the
\* whitespace of str.isspace() without U+001C..U+001F, which int() rejects
Whitespace ==
    (9..13) \cup {32, 133, 160, 5760} \cup (8192..8202)
            \cup {8232, 8233, 8239, 8287, 12288}

\* the digit 0 of every script that has decimal digits; the digits 1..9 of
\* a script follow its 0
DigitZeros ==
    { 48, 1632, 1776, 1984, 2406, 2534, 2662, 2790, 2918, 3046, 3174, 3302,
      3430, 3558, 3664, 3792, 3872, 4160, 4240, 6112, 6160, 6470, 6608, 6784,
      6800, 6992, 7088, 7232, 7248, 42528, 43216, 43264, 43472, 43504, 43600,
      44016, 65296, 66720, 68912, 69734, 69872, 69942, 70096, 70384, 70736,
      70864, 71248, 71360, 71472, 71904, 72016, 72784, 73040, 73120, 92768,
      92864, 93008, 120782, 120792, 120802, 120812, 120822, 123200, 123632,
      125264, 130032 }

\* every decimal digit
DigitChars == UNION {z..(z + 9) : z \in DigitZeros}

\* str.lower() of one character, as <<first, last, step, offset>>: every
\* step-th character from first to last lowers to itself plus offset
LowerRules ==
    { <<65, 90, 1, 32>>, <<192, 214, 1, 32>>, <<216, 222, 1, 32>>,
      <<256, 302, 2, 1>>, <<306, 310, 2, 1>>, <<313, 327, 2, 1>>,
      <<330, 374, 2, 1>>, <<376, 376, 1, -121>>, <<377, 381, 2, 1>>,
      <<385, 385, 1, 210>>, <<386, 388, 2, 1>>, <<390, 390, 1, 206>>,
      <<391, 391, 1, 1>>, <<393, 394, 1, 205>>, <<395, 395, 1, 1>>,
      <<398, 398, 1, 79>>, <<399, 399, 1, 202>>, <<400, 400, 1, 203>>,
      <<401, 401, 1, 1>>, <<403, 403, 1, 205>>, <<404, 404, 1, 207>>,
      <<406, 406, 1, 211>>, <<407, 407, 1, 209>>, <<408, 408, 1, 1>>,
      <<412, 412, 1, 211>>, <<413, 413, 1, 213>>, <<415, 415, 1, 214>>,
      <<416, 420, 2, 1>>, <<422, 422, 1, 218>>, <<423, 423, 1, 1>>,
      <<425, 425, 1, 218>>, <<428, 428, 1, 1>>, <<430, 430, 1, 218>>,
      <<431, 431, 1, 1>>, <<433, 434, 1, 217>>, <<435, 437, 2, 1>>,
      <<439, 439, 1, 219>>, <<440, 440, 1, 1>>, <<444, 444, 1, 1>>,
      <<452, 452, 1, 2>>, <<453, 453, 1, 1>>, <<455, 455, 1, 2>>,
      <<456, 456, 1, 1>>, <<458, 458, 1, 2>>, <<459, 475, 2, 1>>,
      <<478, 494, 2, 1>>, <<497, 497, 1, 2>>, <<498, 500, 2, 1>>,
      <<502, 502, 1, -97>>, <<503, 503, 1, -56>>, <<504, 542, 2, 1>>,
      <<544, 544, 1, -130>>, <<546, 562, 2, 1>>, <<570, 570, 1, 10795>>,
      <<571, 571, 1, 1>>, <<573, 573, 1, -163>>, <<574, 574, 1, 10792>>,
      <<577, 577, 1, 1>>, <<579, 579, 1, -195>>, <<580, 580, 1, 69>>,
      <<581, 581, 1, 71>>, <<582, 590, 2, 1>>, <<880, 882, 2, 1>>,
      <<886, 886, 1, 1>>, <<895, 895, 1, 116>>, <<902, 902, 1, 38>>,
      <<904, 906, 1, 37>>, <<908, 908, 1, 64>>, <<910, 911, 1, 63>>,
      <<913, 929, 1, 32>>, <<932, 939, 1, 32>>, <<975, 975, 1, 8>>,
      <<984, 1006, 2, 1>>, <<1012, 1012, 1, -60>>, <<1015, 1015, 1, 1>>,
      <<1017, 1017, 1, -7>>, <<1018, 1018, 1, 1>>, <<1021, 1023, 1, -130>>,
      <<1024, 1039, 1, 80>>, <<1040, 1071, 1, 32>>, <<1120, 1152, 2, 1>>,
      <<1162, 1214, 2, 1>>, <<1216, 1216, 1, 15>>, <<1217, 1229, 2, 1>>,
      <<1232, 1326, 2, 1>>, <<1329, 1366, 1, 48>>, <<4256, 4293, 1, 7264>>,
      <<4295, 4295, 1, 7264>>, <<4301, 4301, 1, 7264>>,
      <<5024, 5103, 1, 38864>>, <<5104, 5109, 1, 8>>,
      <<7312, 7354, 1, -3008>>, <<7357, 7359, 1, -3008>>,
      <<7680, 7828, 2, 1>>, <<7838, 7838, 1, -7615>>, <<7840, 7934, 2, 1>>,
      <<7944, 7951, 1, -8>>, <<7960, 7965, 1, -8>>, <<7976, 7983, 1, -8>>,
      <<7992, 7999, 1, -8>>, <<8008, 8013, 1, -8>>, <<8025, 8031, 2, -8>>,
      <<8040, 8047, 1, -8>>, <<8072, 8079, 1, -8>>, <<8088, 8095, 1, -8>>,
      <<8104, 8111, 1, -8>>, <<8120, 8121, 1, -8>>, <<8122, 8123, 1, -74>>,
      <<8124, 8124, 1, -9>>, <<8136, 8139, 1, -86>>, <<8140, 8140, 1, -9>>,
      <<8152, 8153, 1, -8>>, <<8154, 8155, 1, -100>>, <<8168, 8169, 1, -8>>,
      <<8170, 8171, 1, -112>>, <<8172, 8172, 1, -7>>, <<8184, 8185, 1, -128>>,
      <<8186, 8187, 1, -126>>, <<8188, 8188, 1, -9>>,
      <<8486, 8486, 1, -7517>>, <<8490, 8490, 1, -8383>>,
      <<8491, 8491, 1, -8262>>, <<8498, 8498, 1, 28>>, <<8544, 8559, 1, 16>>,
      <<8579, 8579, 1, 1>>, <<9398, 9423, 1, 26>>, <<11264, 11311, 1, 48>>,
      <<11360, 11360, 1, 1>>, <<11362, 11362, 1, -10743>>,
      <<11363, 11363, 1, -3814>>, <<11364, 11364, 1, -10727>>,
      <<11367, 11371, 2, 1>>, <<11373, 11373, 1, -10780>>,
      <<11374, 11374, 1, -10749>>, <<11375, 11375, 1, -10783>>,
      <<11376, 11376, 1, -10782>>, <<11378, 11378, 1, 1>>,
      <<11381, 11381, 1, 1>>, <<11390, 11391, 1, -10815>>,
      <<11392, 11490, 2, 1>>, <<11499, 11501, 2, 1>>, <<11506, 11506, 1, 1>>,
      <<42560, 42604, 2, 1>>, <<42624, 42650, 2, 1>>, <<42786, 42798, 2, 1>>,
      <<42802, 42862, 2, 1>>, <<42873, 42875, 2, 1>>,
      <<42877, 42877, 1, -35332>>, <<42878, 42886, 2, 1>>,
      <<42891, 42891, 1, 1>>, <<42893, 42893, 1, -42280>>,
      <<42896, 42898, 2, 1>>, <<42902, 42920, 2, 1>>,
      <<42922, 42922, 1, -42308>>, <<42923, 42923, 1, -42319>>,
      <<42924, 42924, 1, -42315>>, <<42925, 42925, 1, -42305>>,
      <<42926, 42926, 1, -42308>>, <<42928, 42928, 1, -42258>>,
      <<42929, 42929, 1, -42282>>, <<42930, 42930, 1, -42261>>,
      <<42931, 42931, 1, 928>>, <<42932, 42946, 2, 1>>,
      <<42948, 42948, 1, -48>>, <<42949, 42949, 1, -42307>>,
      <<42950, 42950, 1, -35384>>, <<42951, 42953, 2, 1>>,
      <<42960, 42960, 1, 1>>, <<42966, 42968, 2, 1>>, <<42997, 42997, 1, 1>>,
      <<65313, 65338, 1, 32>>, <<66560, 66599, 1, 40>>,
      <<66736, 66771, 1, 40>>, <<66928, 66938, 1, 39>>,
      <<66940, 66954, 1, 39>>, <<66956, 66962, 1, 39>>,
      <<66964, 66965, 1, 39>>, <<68736, 68786, 1, 64>>,
      <<71840, 71871, 1, 32>>, <<93760, 93791, 1, 32>>,
      <<125184, 125217, 1, 34>> }

\* characters the final-sigma rule of str.lower() looks through
\* (case-ignorable), as <<first, last>>
CaseIgnorableRanges ==
    { <<39, 39>>, <<46, 46>>, <<58, 58>>, <<94, 94>>, <<96, 96>>,
      <<168, 168>>, <<173, 173>>, <<175, 175>>, <<180, 180>>, <<183, 184>>,
      <<688, 879>>, <<884, 885>>, <<890, 890>>, <<900, 901>>, <<903, 903>>,
      <<1155, 1161>>, <<1369, 1369>>, <<1375, 1375>>, <<1425, 1469>>,
      <<1471, 1471>>, <<1473, 1474>>, <<1476, 1477>>, <<1479, 1479>>,
      <<1524, 1524>>, <<1536, 1541>>, <<1552, 1562>>, <<1564, 1564>>,
      <<1600, 1600>>, <<1611, 1631>>, <<1648, 1648>>, <<1750, 1757>>,
      <<1759, 1768>>, <<1770, 1773>>, <<1807, 1807>>, <<1809, 1809>>,
      <<1840, 1866>>, <<1958, 1968>>, <<2027, 2037>>, <<2042, 2042>>,
      <<2045, 2045>>, <<2070, 2093>>, <<2137, 2139>>, <<2184, 2184>>,
      <<2192, 2193>>, <<2200, 2207>>, <<2249, 2306>>, <<2362, 2362>>,
      <<2364, 2364>>, <<2369, 2376>>, <<2381, 2381>>, <<2385, 2391>>,
      <<2402, 2403>>, <<2417, 2417>>, <<2433, 2433>>, <<2492, 2492>>,
      <<2497, 2500>>, <<2509, 2509>>, <<2530, 2531>>, <<2558, 2558>>,
      <<2561, 2562>>, <<2620, 2620>>, <<2625, 2626>>, <<2631, 2632>>,
      <<2635, 2637>>, <<2641, 2641>>, <<2672, 2673>>, <<2677, 2677>>,
      <<2689, 2690>>, <<2748, 2748>>, <<2753, 2757>>, <<2759, 2760>>,
      <<2765, 2765>>, <<2786, 2787>>, <<2810, 2815>>, <<2817, 2817>>,
      <<2876, 2876>>, <<2879, 2879>>, <<2881, 2884>>, <<2893, 2893>>,
      <<2901, 2902>>, <<2914, 2915>>, <<2946, 2946>>, <<3008, 3008>>,
      <<3021, 3021>>, <<3072, 3072>>, <<3076, 3076>>, <<3132, 3132>>,
      <<3134, 3136>>, <<3142, 3144>>, <<3146, 3149>>, <<3157, 3158>>,
      <<3170, 3171>>, <<3201, 3201>>, <<3260, 3260>>, <<3263, 3263>>,
      <<3270, 3270>>, <<3276, 3277>>, <<3298, 3299>>, <<3328, 3329>>,
      <<3387, 3388>>, <<3393, 3396>>, <<3405, 3405>>, <<3426, 3427>>,
      <<3457, 3457>>, <<3530, 3530>>, <<3538, 3540>>, <<3542, 3542>>,
      <<3633, 3633>>, <<3636, 3642>>, <<3654, 3662>>, <<3761, 3761>>,
      <<3764, 3772>>, <<3782, 3782>>, <<3784, 3789>>, <<3864, 3865>>,
      <<3893, 3893>>, <<3895, 3895>>, <<3897, 3897>>, <<3953, 3966>>,
      <<3968, 3972>>, <<3974, 3975>>, <<3981, 3991>>, <<3993, 4028>>,
      <<4038, 4038>>, <<4141, 4144>>, <<4146, 4151>>, <<4153, 4154>>,
      <<4157, 4158>>, <<4184, 4185>>, <<4190, 4192>>, <<4209, 4212>>,
      <<4226, 4226>>, <<4229, 4230>>, <<4237, 4237>>, <<4253, 4253>>,
      <<4348, 4348>>, <<4957, 4959>>, <<5906, 5908>>, <<5938, 5939>>,
      <<5970, 5971>>, <<6002, 6003>>, <<6068, 6069>>, <<6071, 6077>>,
      <<6086, 6086>>, <<6089, 6099>>, <<6103, 6103>>, <<6109, 6109>>,
      <<6155, 6159>>, <<6211, 6211>>, <<6277, 6278>>, <<6313, 6313>>,
      <<6432, 6434>>, <<6439, 6440>>, <<6450, 6450>>, <<6457, 6459>>,
      <<6679, 6680>>, <<6683, 6683>>, <<6742, 6742>>, <<6744, 6750>>,
      <<6752, 6752>>, <<6754, 6754>>, <<6757, 6764>>, <<6771, 6780>>,
      <<6783, 6783>>, <<6823, 6823>>, <<6832, 6862>>, <<6912, 6915>>,
      <<6964, 6964>>, <<6966, 6970>>, <<6972, 6972>>, <<6978, 6978>>,
      <<7019, 7027>>, <<7040, 7041>>, <<7074, 7077>>, <<7080, 7081>>,
      <<7083, 7085>>, <<7142, 7142>>, <<7144, 7145>>, <<7149, 7149>>,
      <<7151, 7153>>, <<7212, 7219>>, <<7222, 7223>>, <<7288, 7293>>,
      <<7376, 7378>>, <<7380, 7392>>, <<7394, 7400>>, <<7405, 7405>>,
      <<7412, 7412>>, <<7416, 7417>>, <<7468, 7530>>, <<7544, 7544>>,
      <<7579, 7679>>, <<8125, 8125>>, <<8127, 8129>>, <<8141, 8143>>,
      <<8157, 8159>>, <<8173, 8175>>, <<8189, 8190>>, <<8203, 8207>>,
      <<8216, 8217>>, <<8228, 8228>>, <<8231, 8231>>, <<8234, 8238>>,
      <<8288, 8292>>, <<8294, 8303>>, <<8305, 8305>>, <<8319, 8319>>,
      <<8336, 8348>>, <<8400, 8432>>, <<11388, 11389>>, <<11503, 11505>>,
      <<11631, 11631>>, <<11647, 11647>>, <<11744, 11775>>, <<11823, 11823>>,
      <<12293, 12293>>, <<12330, 12333>>, <<12337, 12341>>, <<12347, 12347>>,
      <<12441, 12446>>, <<12540, 12542>>, <<40981, 40981>>, <<42232, 42237>>,
      <<42508, 42508>>, <<42607, 42610>>, <<42612, 42621>>, <<42623, 42623>>,
      <<42652, 42655>>, <<42736, 42737>>, <<42752, 42785>>, <<42864, 42864>>,
      <<42888, 42890>>, <<42994, 42996>>, <<43000, 43001>>, <<43010, 43010>>,
      <<43014, 43014>>, <<43019, 43019>>, <<43045, 43046>>, <<43052, 43052>>,
      <<43204, 43205>>, <<43232, 43249>>, <<43263, 43263>>, <<43302, 43309>>,
      <<43335, 43345>>, <<43392, 43394>>, <<43443, 43443>>, <<43446, 43449>>,
      <<43452, 43453>>, <<43471, 43471>>, <<43493, 43494>>, <<43561, 43566>>,
      <<43569, 43570>>, <<43573, 43574>>, <<43587, 43587>>, <<43596, 43596>>,
      <<43632, 43632>>, <<43644, 43644>>, <<43696, 43696>>, <<43698, 43700>>,
      <<43703, 43704>>, <<43710, 43711>>, <<43713, 43713>>, <<43741, 43741>>,
      <<43756, 43757>>, <<43763, 43764>>, <<43766, 43766>>, <<43867, 43871>>,
      <<43881, 43883>>, <<44005, 44005>>, <<44008, 44008>>, <<44013, 44013>>,
      <<64286, 64286>>, <<64434, 64450>>, <<65024, 65039>>, <<65043, 65043>>,
      <<65056, 65071>>, <<65106, 65106>>, <<65109, 65109>>, <<65279, 65279>>,
      <<65287, 65287>>, <<65294, 65294>>, <<65306, 65306>>, <<65342, 65342>>,
      <<65344, 65344>>, <<65392, 65392>>, <<65438, 65439>>, <<65507, 65507>>,
      <<65529, 65531>>, <<66045, 66045>>, <<66272, 66272>>, <<66422, 66426>>,
      <<67456, 67461>>, <<67463, 67504>>, <<67506, 67514>>, <<68097, 68099>>,
      <<68101, 68102>>, <<68108, 68111>>, <<68152, 68154>>, <<68159, 68159>>,
      <<68325, 68326>>, <<68900, 68903>>, <<69291, 69292>>, <<69446, 69456>>,
      <<69506, 69509>>, <<69633, 69633>>, <<69688, 69702>>, <<69744, 69744>>,
      <<69747, 69748>>, <<69759, 69761>>, <<69811, 69814>>, <<69817, 69818>>,
      <<69821, 69821>>, <<69826, 69826>>, <<69837, 69837>>, <<69888, 69890>>,
      <<69927, 69931>>, <<69933, 69940>>, <<70003, 70003>>, <<70016, 70017>>,
      <<70070, 70078>>, <<70089, 70092>>, <<70095, 70095>>, <<70191, 70193>>,
      <<70196, 70196>>, <<70198, 70199>>, <<70206, 70206>>, <<70367, 70367>>,
      <<70371, 70378>>, <<70400, 70401>>, <<70459, 70460>>, <<70464, 70464>>,
      <<70502, 70508>>, <<70512, 70516>>, <<70712, 70719>>, <<70722, 70724>>,
      <<70726, 70726>>, <<70750, 70750>>, <<70835, 70840>>, <<70842, 70842>>,
      <<70847, 70848>>, <<70850, 70851>>, <<71090, 71093>>, <<71100, 71101>>,
      <<71103, 71104>>, <<71132, 71133>>, <<71219, 71226>>, <<71229, 71229>>,
      <<71231, 71232>>, <<71339, 71339>>, <<71341, 71341>>, <<71344, 71349>>,
      <<71351, 71351>>, <<71453, 71455>>, <<71458, 71461>>, <<71463, 71467>>,
      <<71727, 71735>>, <<71737, 71738>>, <<71995, 71996>>, <<71998, 71998>>,
      <<72003, 72003>>, <<72148, 72151>>, <<72154, 72155>>, <<72160, 72160>>,
      <<72193, 72202>>, <<72243, 72248>>, <<72251, 72254>>, <<72263, 72263>>,
      <<72273, 72278>>, <<72281, 72283>>, <<72330, 72342>>, <<72344, 72345>>,
      <<72752, 72758>>, <<72760, 72765>>, <<72767, 72767>>, <<72850, 72871>>,
      <<72874, 72880>>, <<72882, 72883>>, <<72885, 72886>>, <<73009, 73014>>,
      <<73018, 73018>>, <<73020, 73021>>, <<73023, 73029>>, <<73031, 73031>>,
      <<73104, 73105>>, <<73109, 73109>>, <<73111, 73111>>, <<73459, 73460>>,
      <<78896, 78904>>, <<92912, 92916>>, <<92976, 92982>>, <<92992, 92995>>,
      <<94031, 94031>>, <<94095, 94111>>, <<94176, 94177>>, <<94179, 94180>>,
      <<110576, 110579>>, <<110581, 110587>>, <<110589, 110590>>,
      <<113821, 113822>>, <<113824, 113827>>, <<118528, 118573>>,
      <<118576, 118598>>, <<119143, 119145>>, <<119155, 119170>>,
      <<119173, 119179>>, <<119210, 119213>>, <<119362, 119364>>,
      <<121344, 121398>>, <<121403, 121452>>, <<121461, 121461>>,
      <<121476, 121476>>, <<121499, 121503>>, <<121505, 121519>>,
      <<122880, 122886>>, <<122888, 122904>>, <<122907, 122913>>,
      <<122915, 122916>>, <<122918, 122922>>, <<123184, 123197>>,
      <<123566, 123566>>, <<123628, 123631>>, <<125136, 125142>>,
      <<125252, 125259>>, <<127995, 127999>>, <<917505, 917505>>,
      <<917536, 917631>>, <<917760, 917999>> }

\* cased characters that are not case-ignorable, as <<first, last>>
CasedRanges ==
    { <<65, 90>>, <<97, 122>>, <<170, 170>>, <<181, 181>>, <<186, 186>>,
      <<192, 214>>, <<216, 246>>, <<248, 442>>, <<444, 447>>, <<452, 659>>,
      <<661, 687>>, <<880, 883>>, <<886, 887>>, <<891, 893>>, <<895, 895>>,
      <<902, 902>>, <<904, 906>>, <<908, 908>>, <<910, 929>>, <<931, 1013>>,
      <<1015, 1153>>, <<1162, 1327>>, <<1329, 1366>>, <<1376, 1416>>,
      <<4256, 4293>>, <<4295, 4295>>, <<4301, 4301>>, <<4304, 4346>>,
      <<4349, 4351>>, <<5024, 5109>>, <<5112, 5117>>, <<7296, 7304>>,
      <<7312, 7354>>, <<7357, 7359>>, <<7424, 7467>>, <<7531, 7543>>,
      <<7545, 7578>>, <<7680, 7957>>, <<7960, 7965>>, <<7968, 8005>>,
      <<8008, 8013>>, <<8016, 8023>>, <<8025, 8025>>, <<8027, 8027>>,
      <<8029, 8029>>, <<8031, 8061>>, <<8064, 8116>>, <<8118, 8124>>,
      <<8126, 8126>>, <<8130, 8132>>, <<8134, 8140>>, <<8144, 8147>>,
      <<8150, 8155>>, <<8160, 8172>>, <<8178, 8180>>, <<8182, 8188>>,
      <<8450, 8450>>, <<8455, 8455>>, <<8458, 8467>>, <<8469, 8469>>,
      <<8473, 8477>>, <<8484, 8484>>, <<8486, 8486>>, <<8488, 8488>>,
      <<8490, 8493>>, <<8495, 8500>>, <<8505, 8505>>, <<8508, 8511>>,
      <<8517, 8521>>, <<8526, 8526>>, <<8544, 8575>>, <<8579, 8580>>,
      <<9398, 9449>>, <<11264, 11387>>, <<11390, 11492>>, <<11499, 11502>>,
      <<11506, 11507>>, <<11520, 11557>>, <<11559, 11559>>, <<11565, 11565>>,
      <<42560, 42605>>, <<42624, 42651>>, <<42786, 42863>>, <<42865, 42887>>,
      <<42891, 42894>>, <<42896, 42954>>, <<42960, 42961>>, <<42963, 42963>>,
      <<42965, 42969>>, <<42997, 42998>>, <<43002, 43002>>, <<43824, 43866>>,
      <<43872, 43880>>, <<43888, 43967>>, <<64256, 64262>>, <<64275, 64279>>,
      <<65313, 65338>>, <<65345, 65370>>, <<66560, 66639>>, <<66736, 66771>>,
      <<66776, 66811>>, <<66928, 66938>>, <<66940, 66954>>, <<66956, 66962>>,
      <<66964, 66965>>, <<66967, 66977>>, <<66979, 66993>>, <<66995, 67001>>,
      <<67003, 67004>>, <<68736, 68786>>, <<68800, 68850>>, <<71840, 71903>>,
      <<93760, 93823>>, <<119808, 119892>>, <<119894, 119964>>,
      <<119966, 119967>>, <<119970, 119970>>, <<119973, 119974>>,
      <<119977, 119980>>, <<119982, 119993>>, <<119995, 119995>>,
      <<119997, 120003>>, <<120005, 120069>>, <<120071, 120074>>,
      <<120077, 120084>>, <<120086, 120092>>, <<120094, 120121>>,
      <<120123, 120126>>, <<120128, 120132>>, <<120134, 120134>>,
      <<120138, 120144>>, <<120146, 120485>>, <<120488, 120512>>,
      <<120514, 120538>>, <<120540, 120570>>, <<120572, 120596>>,
      <<120598, 120628>>, <<120630, 120654>>, <<120656, 120686>>,
      <<120688, 120712>>, <<120714, 120744>>, <<120746, 120770>>,
      <<120772, 120779>>, <<122624, 122633>>, <<122635, 122654>>,
      <<125184, 125251>>, <<127280, 127305>>, <<127312, 127337>>,
      <<127344, 127369>> }

InRanges(c, rs) == \E r \in rs : r[1] <= c /\ c <= r[2]
IsCaseIgnorable(c) == InRanges(c, CaseIgnorableRanges)
IsCased(c) == InRanges(c, CasedRanges)

\* ------------------------------------------------------------ input sets
\* Python's None
None == <<>>

\* the Python string s where None is possible too
Str(s) == <<s>>
NoValue == <<>>

\* deployments of the namespace, in the order the API lists them
ApiItems == <<"web", "api">>
DeploymentNames == {ApiItems[i] : i \in 1..Len(ApiItems)}

\* positional arguments tried ("db" names no deployment of the namespace)
ArgLists == {<<>>, <<"web">>, <<"api", "db">>}

ReleaseNames == {"app"}

\* str(n) for a single-digit natural
DigitString(n) == <<48 + n>>

\* values tried for --replicas: absent, every count up to the bound, a
\* negative integer, a count written with a vertical tab before, an
\* underscore inside and a no-break space after, and a non-numeric word
ReplicaStrings ==
    {NoValue} \cup {DigitString(n) : n \in 0..MaxReplicas}
              \cup {Text(<<"-", "1">>),
                    <<VerticalTab>> \o Text(<<"1", "_", "0">>)
                                   \o <<NoBreakSpace>>,
                    Text(<<"x">>)}

\* answers typed at the confirmation prompt
Answers ==
    { Text(<<"y">>), Text(<<"Y">>), Text(<<"y", "e", "s">>),
      Text(<<"Y", "E", "S">>), Text(<<"Y", "e", "s">>), Text(<<"n">>),
      Text(<<"n", "o">>), Text(<<>>), Text(<<"y", "e">>), Text(<<"o", "k">>) }

\* one entry of a release revision's resource list; NoneResource is a None
\* entry of the list
NoneResource == None
Resources ==
    {NoneResource}
    \cup [kind : {"HorizontalPodAutoscaler"}, name : DeploymentNames,
          minReplicas : 0..MaxReplicas]
    \cup [kind : {"Service"}, name : {"web"}, minReplicas : {0}]

ResourceLists == UNION {[1..n -> Resources] : n \in 0..MaxResources}

\* resource lists handed to helmReplicaCount on its own
ScanLists == UNION {[1..n -> Resources] : n \in 0..MaxScanResources}

OptionSets ==
    [namespace : {None, Str("default")},
     scaleIn : BOOLEAN, scaleOut : BOOLEAN,
     replicas : ReplicaStrings,
     helmCheck : BOOLEAN,
     namespaceWide : BOOLEAN,
     args : ArgLists]

\* ----------------------------------------------------------------- state
VARIABLES
    options,        \* parsed command line (optparse values and args)
    live,           \* cluster: deployment name -> spec.replicas
    labels,         \* cluster: deployment name -> value of the release label
    pc,             \* position of the script
    deploymentData, \* dict built by buildDeploymentData
    depOrder,       \* iteration order of deploymentData
    idx,            \* loop position in buildDeploymentData / main
    prompted,       \* input() was called
    answer,         \* what input() returned
    depReplicas,    \* name -> depReplicas computed by scaleDeployment
    outcome,        \* name -> result of scaleDeployment
    listCalls,      \* number of list_namespaced_deployment calls
    helmCalls,      \* get_current_revision calls, in order
    patchCalls,     \* patch_namespaced_deployment_scale calls, in order
    exitCode,       \* process exit status, -1 while running
    collectError,   \* collection call that raised: "none", "list", "release"
    scanRels,       \* resource list handed to helmReplicaCount
    scanName,       \* deployment name handed to helmReplicaCount
    scanResult      \* what helmReplicaCount returned, -2 before the call

vars == <<options, live, labels, pc, deploymentData, depOrder, idx, prompted,
          answer, depReplicas, outcome, listCalls, helmCalls, patchCalls,
          exitCode, collectError, scanRels, scanName, scanResult>>

scanVars == <<scanRels, scanName, scanResult>>

\* ------------------------------------------------------- python helpers
\* truthiness of a str-or-None
TruthyStr(s) == s # None /\ s # Str("")

\* truthiness of a str-or-None held as a character sequence
TruthySeq(s) == s # <<>>

\* dict.get(k) is truthy: key present and value a non-zero integer
GetTruthyInt(d, k) == k \in DOMAIN d /\ d[k] # 0

\* dict.update({k: v})
DictUpdate(d, k, v) == [x \in DOMAIN d \cup {k} |-> IF x = k THEN v ELSE d[x]]

InSeq(x, s) == \E i \in 1..Len(s) : s[i] = x

\* what str.lower() puts for the character c, capital sigma apart; only
\* U+0130 lowers to more than one character
LowerChar(c) ==
    IF c = 304 THEN <<105, 775>>
    ELSE IF \E r \in LowerRules :
               r[1] <= c /\ c <= r[2] /\ (c - r[1]) % r[3] = 0
    THEN LET r == CHOOSE r \in LowerRules :
                     r[1] <= c /\ c <= r[2] /\ (c - r[1]) % r[3] = 0
         IN  <<c + r[4]>>
    ELSE <<c>>

\* the capital sigma at s[i] is final: the nearest character before it that
\* is not case-ignorable is cased, and the nearest such character after it,
\* if any, is not
FinalSigma(s, i) ==
    LET before == {j \in 1..(i - 1) : ~IsCaseIgnorable(s[j])}
        after == {j \in (i + 1)..Len(s) : ~IsCaseIgnorable(s[j])}
    IN  /\ before # {}
        /\ IsCased(s[CHOOSE j \in before : \A k \in before : k <= j])
        /\ \/ after = {}
           \/ ~IsCased(s[CHOOSE j \in after : \A k \in after : j <= k])

\* lower case of s from position i on
RECURSIVE LowerFrom(_, _)
LowerFrom(s, i) ==
    IF i > Len(s) THEN <<>>
    ELSE (IF s[i] = CapitalSigma
          THEN <<IF FinalSigma(s, i) THEN FinalSmallSigma ELSE SmallSigma>>
          ELSE LowerChar(s[i])) \o LowerFrom(s, i + 1)

\* str.lower()
lower(s) == LowerFrom(s, 1)

IsDigit(c) == c \in DigitChars
DigitVal(c) == c - (CHOOSE z \in DigitZeros : z <= c /\ c <= z + 9)

RECURSIVE StripLeft(_)
StripLeft(s) ==
    IF s # <<>> /\ s[1] \in Whitespace THEN StripLeft(Tail(s)) ELSE s

RECURSIVE StripRight(_)
StripRight(s) ==
    IF s # <<>> /\ s[Len(s)] \in Whitespace
    THEN StripRight(SubSeq(s, 1, Len(s) - 1))
    ELSE s

\* the stripping int() does before it parses
strip(s) == StripRight(StripLeft(s))

\* value of a digit string; the underscores int() allows are skipped
RECURSIVE DecimalValue(_)
DecimalValue(s) ==
    IF s = <<>> THEN 0
    ELSE IF s[Len(s)] = Underscore THEN DecimalValue(SubSeq(s, 1, Len(s) - 1))
    ELSE 10 * DecimalValue(SubSeq(s, 1, Len(s) - 1)) + DigitVal(s[Len(s)])

Unsigned(s) ==
    IF s # <<>> /\ s[1] \in {Minus, Plus} THEN Tail(s) ELSE s

\* sys.get_int_max_str_digits(): int() refuses a string of more digits
MaxStrDigits == 4300

\* int(s) succeeds: surrounding whitespace, an optional sign, then digits
\* with single underscores allowed between two digits, and no more than
\* MaxStrDigits digits
IsIntLiteral(s) ==
    LET b == Unsigned(strip(s))
    IN  /\ b # <<>>
        /\ Len(SelectSeq(b, IsDigit)) <= MaxStrDigits
        /\ \A i \in 1..Len(b) :
              \/ IsDigit(b[i])
              \/ /\ b[i] = Underscore
                 /\ 1 < i /\ i < Len(b)
                 /\ IsDigit(b[i - 1]) /\ IsDigit(b[i + 1])

\* int(s)
int(s) ==
    LET t == strip(s)
    IN  IF t # <<>> /\ t[1] = Minus THEN 0 - DecimalValue(Unsigned(t))
        ELSE DecimalValue(Unsigned(t))

\* ------------------------------------------------- module-level globals
ScaleIn == options.scaleIn
ScaleOut == options.scaleOut
HelmCheck == options.helmCheck
selDeployments == options.args

UserDefaultedReplicas == TruthySeq(options.replicas)

\* the --replicas test made on the number instead of the string: 0 counts
\* as not supplied
DefaultReplicas_ZeroUnset ==
    IF TruthySeq(options.replicas) /\ int(options.replicas) # 0
    THEN int(options.replicas)
    ELSE 1

DefaultReplicas ==
    IF TruthySeq(options.replicas) THEN int(options.replicas) ELSE 1

\* the import-time checks without the --no-helm-replica-check one
optionError_NoReplicasCheck ==
    \/ ~TruthyStr(options.namespace)
    \/ (options.scaleIn /\ options.scaleOut)
    \/ (~options.namespaceWide /\ options.args = <<>>
            /\ (options.scaleIn \/ options.scaleOut))

\* some optionError call of the import-time checks is reached
optionError ==
    \/ ~TruthyStr(options.namespace)
    \/ (options.scaleIn /\ options.scaleOut)
    \/ (~options.helmCheck /\ ~TruthySeq(options.replicas))
    \/ (~options.namespaceWide /\ options.args = <<>>
            /\ (options.scaleIn \/ options.scaleOut))

\* ------------------------------------------------------------------ Init
Init ==
    /\ options \in OptionSets
    /\ live \in [DeploymentNames -> 0..MaxReplicas]
    /\ labels \in [DeploymentNames ->
                       {None} \cup {Str(r) : r \in ReleaseNames}]
    /\ pc = "start"
    /\ deploymentData = <<>>
    /\ depOrder = <<>>
    /\ idx = 0
    /\ prompted = FALSE
    /\ answer = <<>>
    /\ depReplicas = <<>>
    /\ outcome = <<>>
    /\ listCalls = 0
    /\ helmCalls = <<>>
    /\ patchCalls = <<>>
    /\ exitCode = -1
    /\ collectError = "none"
    /\ scanRels = <<>>
    /\ scanName = ""
    /\ scanResult = -2


\* ------------------------------------------------------ Signal collection
\* listDeploymentInfo(deployList) on a successful list call
RECURSIVE FilterItems(_, _)
FilterItems(items, deployList) ==
    IF items = <<>> THEN <<>>
    ELSE IF InSeq(Head(items), deployList)
         THEN <<Head(items)>> \o FilterItems(Tail(items), deployList)
         ELSE FilterItems(Tail(items), deployList)

\* the name filter dropped when --namespace-wide is set
listDeploymentInfo_WideWins(deployList) ==
    IF deployList # <<>> /\ ~options.namespaceWide
    THEN FilterItems(ApiItems, deployList)
    ELSE ApiItems

listDeploymentInfo(deployList) ==
    IF deployList # <<>> THEN FilterItems(ApiItems, deployList) ELSE ApiItems

SeqRange(s) == {s[i] : i \in 1..Len(s)}

\* findCurrentReplicas(deployments)
findCurrentReplicas(deploys) ==
    [n \in SeqRange(deploys) |-> [curReplicas |-> live[n]]]

\* findReleaseNames(deployments)
findReleaseNames(deploys) ==
    [n \in SeqRange(deploys) |-> [helmRelease |-> labels[n]]]

\* the scan loop of helmReplicaCount from entry i on, minReplicas so far
RECURSIVE ScanResources(_, _, _, _)
ScanResources(rels, i, minReplicas, deploymentName) ==
    IF i > Len(rels) THEN minReplicas
    ELSE IF rels[i] = NoneResource THEN minReplicas
    ELSE IF rels[i].kind = "HorizontalPodAutoscaler"
            /\ rels[i].name = deploymentName
         THEN ScanResources(rels, i + 1, rels[i].minReplicas, deploymentName)
         ELSE ScanResources(rels, i + 1, minReplicas, deploymentName)

\* helmReplicaCount(helmRelease, deploymentName) once the revision is fetched
helmReplicaCount(rels, deploymentName) ==
    ScanResources(rels, 1, -1, deploymentName)

\* newReplicas taken from the autoscaler whenever one was found
NewReplicasOf_FromHelm(depDetails) ==
    IF "helmReplicas" \in DOMAIN depDetails /\ depDetails["helmReplicas"] >= 0
    THEN depDetails["helmReplicas"]
    ELSE DefaultReplicas

\* the label test left out: a release is fetched for every deployment
NoHelmRelease_Never(depDetails) == FALSE

\* buildDeploymentData: the deployment carries no release label, so
\* helmReplicaCount is not called for it
NoHelmRelease(depDetails) == depDetails["helmRelease"] = None

\* the newReplicas value buildDeploymentData stores for one deployment
NewReplicasOf(depDetails) == DefaultReplicas

\* ---------------------------------------------------------- Target policy
\* scaleDeployment, the helmReplicas branch (depReplicas starts at -1)
HelmTarget(depDetails) ==
    IF GetTruthyInt(depDetails, "helmReplicas")
    THEN IF UserDefaultedReplicas /\ depDetails["helmReplicas"] # DefaultReplicas
         THEN DefaultReplicas
         ELSE IF depDetails["helmReplicas"] < 0
              THEN DefaultReplicas
              ELSE depDetails["helmReplicas"]
    ELSE -1

\* the newReplicas branch taken only when the helmReplicas branch left
\* depReplicas unresolved
NewReplicasTarget_KeepHelm(depDetails, prev) ==
    IF prev < 0 /\ GetTruthyInt(depDetails, "newReplicas")
    THEN depDetails["newReplicas"]
    ELSE prev

\* scaleDeployment, the newReplicas branch
NewReplicasTarget(depDetails, prev) ==
    IF GetTruthyInt(depDetails, "newReplicas")
    THEN depDetails["newReplicas"]
    ELSE prev

\* scaleDeployment, the final fallback
ResolveTarget(prev) == IF prev < 0 THEN DefaultReplicas ELSE prev

\* depReplicas as scaleDeployment has it when it reaches the guards
TargetReplicas(depDetails) ==
    ResolveTarget(NewReplicasTarget(depDetails, HelmTarget(depDetails)))

\* ---------------------------------------------------------- Guarded scaler
\* scale-out guard written with < : a target equal to current is patched
ScaleOutSkips_Strict(target, depDetails) ==
    ScaleOut /\ target < depDetails["curReplicas"]

ScaleOutSkips(target, depDetails) ==
    ScaleOut /\ target <= depDetails["curReplicas"]

\* scale-in guard written with > : a target equal to current is patched
ScaleInSkips_Strict(target, depDetails) ==
    ScaleIn /\ target > depDetails["curReplicas"]

ScaleInSkips(target, depDetails) ==
    ScaleIn /\ target >= depDetails["curReplicas"]

\* ------------------------------------------------------------------ main
\* main() without the direction test: the scaling branch is always taken
ScalingRequested_Always == TRUE

\* main(): a prompt is shown
ScalingRequested == ScaleIn \/ ScaleOut

\* the words main() compares the lowered answer with
YesWords == {Text(<<"y">>), Text(<<"y", "e", "s">>)}
NoWords == {Text(<<"n">>), Text(<<"n", "o">>)}

\* the answer test written as "anything but no"
IsAffirmative_NotNo(a) == lower(a) \notin NoWords

\* main(): the answer lets the scaling loop run
IsAffirmative(a) == lower(a) \in YesWords

\* main() asking for confirmation whatever the direction
PcAfterCollect_AlwaysPrompt == "prompt"

\* main() after buildDeploymentData returned: the prompt for a scaling run,
\* the printout and the end of the script for a dry-run
PcAfterCollect == IF ScalingRequested THEN "prompt" ELSE "done"

\* listDeploymentInfo returning its empty deployInfo from the except clause
PcAfterListFailure_ReturnsEmpty == PcAfterCollect

\* where the script stands after list_namespaced_deployment raised: the
\* except clause prints, then "api_response.items" reads an unbound local
PcAfterListFailure == "crashed"

\* what patch_namespaced_deployment_scale can do: return, raise
\* ApiException, raise any other exception (a transport error)
PatchRaises == {"nothing", "ApiException", "other"}

\* where the script stands after one scaleDeployment call in which the patch
\* call raised what "raised" says ("nothing" also when a guard returned):
\* the except clause catches ApiException only, prints it and the loop of
\* main() goes on; any other exception leaves scaleDeployment and main()
PcAfterScale(raised, last) ==
    IF raised = "other" THEN "crashed"
    ELSE IF last THEN "done" ELSE "apply"

ExitCodeAt(p) == IF p = "done" THEN 0 ELSE -1

\* a loop that calls scaleDeployment again for a deployment whose patch
\* failed
NextIdx_RetryFailed(res, i) == IF res = "failed" THEN i ELSE i + 1

\* the "for deployment in deployments" loop of main(): the position after
\* scaleDeployment returned with result res for entry i
NextIdx(res, i) == i + 1

\* ---------------------------------------------------------------- actions
\* module level: option checks, DefaultReplicas = int(options.replicas)
Startup ==
    /\ pc = "start"
    /\ IF optionError
       THEN pc' = "exited" /\ exitCode' = 0
       ELSE IF TruthySeq(options.replicas) /\ ~IsIntLiteral(options.replicas)
            THEN pc' = "crashed" /\ exitCode' = 1
            ELSE pc' = "list" /\ exitCode' = -1
    /\ UNCHANGED scanVars
    /\ UNCHANGED collectError
    /\ UNCHANGED <<options, live, labels, deploymentData, depOrder, idx,
                   prompted, answer, depReplicas, outcome, listCalls,
                   helmCalls, patchCalls>>

\* buildDeploymentData up to the first release fetch; the list call succeeds
ListDeployments ==
    /\ pc = "list"
    /\ listCalls' = listCalls + 1
    /\ LET deploys == listDeploymentInfo(selDeployments)
           current == findCurrentReplicas(deploys)
           releases == findReleaseNames(deploys)
       IN  /\ depOrder' = deploys
           /\ outcome' = [n \in SeqRange(deploys) |-> "not-evaluated"]
           /\ IF HelmCheck
              THEN /\ deploymentData' =
                        [n \in SeqRange(deploys) |->
                            DictUpdate(current[n], "helmRelease",
                                       releases[n]["helmRelease"])]
                   /\ IF deploys = <<>>
                      THEN pc' = PcAfterCollect /\ idx' = 0
                      ELSE pc' = "helm" /\ idx' = 1
              ELSE /\ deploymentData' =
                        [n \in SeqRange(deploys) |->
                            DictUpdate(current[n], "newReplicas",
                                       DefaultReplicas)]
                   /\ pc' = PcAfterCollect
                   /\ idx' = 0
    /\ exitCode' = ExitCodeAt(pc')
    /\ UNCHANGED scanVars
    /\ UNCHANGED collectError
    /\ UNCHANGED <<options, live, labels, prompted, answer, depReplicas,
                   helmCalls, patchCalls>>

\* the list call raises ApiException: it is printed, then api_response is
\* read while unbound and the script dies
ListDeploymentsFails ==
    /\ pc = "list"
    /\ listCalls' = listCalls + 1
    /\ pc' = PcAfterListFailure
    /\ exitCode' = IF pc' = "crashed" THEN 1 ELSE ExitCodeAt(pc')
    /\ UNCHANGED scanVars
    /\ collectError' = "list"
    /\ UNCHANGED <<options, live, labels, deploymentData, depOrder, idx,
                   prompted, answer, depReplicas, outcome, helmCalls,
                   patchCalls>>

\* one iteration of the "for release in deploymentData" loop
HelmStep ==
    /\ pc = "helm"
    /\ LET name == depOrder[idx]
           d == deploymentData[name]
           finish(d2, calls) ==
               /\ deploymentData' =
                    [deploymentData EXCEPT
                        ![name] = DictUpdate(d2, "newReplicas", NewReplicasOf(d2))]
               /\ helmCalls' = calls
               /\ IF idx = Len(depOrder)
                  THEN pc' = PcAfterCollect /\ idx' = 0
                  ELSE pc' = "helm" /\ idx' = idx + 1
       IN  IF NoHelmRelease(d)
           THEN finish(d, helmCalls)
           ELSE \E rels \in ResourceLists :
                   finish(DictUpdate(d, "helmReplicas",
                                     helmReplicaCount(rels, name)),
                          Append(helmCalls,
                                 [release |-> d["helmRelease"],
                                  deployment |-> name]))
    /\ exitCode' = ExitCodeAt(pc')
    /\ UNCHANGED scanVars
    /\ UNCHANGED collectError
    /\ UNCHANGED <<options, live, labels, depOrder, prompted, answer,
                   depReplicas, outcome, listCalls, patchCalls>>

\* get_current_revision raises: nothing catches it
HelmFetchFails ==
    /\ pc = "helm"
    /\ ~NoHelmRelease(deploymentData[depOrder[idx]])
    /\ helmCalls' = Append(helmCalls,
                           [release |-> deploymentData[depOrder[idx]]["helmRelease"],
                            deployment |-> depOrder[idx]])
    /\ pc' = "crashed"
    /\ exitCode' = 1
    /\ UNCHANGED scanVars
    /\ collectError' = "release"
    /\ UNCHANGED <<options, live, labels, deploymentData, depOrder, idx,
                   prompted, answer, depReplicas, outcome, listCalls,
                   patchCalls>>

\* main(): input() returns an answer
Prompt ==
    /\ pc = "prompt"
    /\ \E a \in Answers :
        /\ answer' = a
        /\ prompted' = TRUE
        /\ IF IsAffirmative(a) /\ depOrder # <<>>
           THEN pc' = "apply" /\ idx' = 1
           ELSE pc' = "done" /\ idx' = 0
    /\ exitCode' = ExitCodeAt(pc')
    /\ UNCHANGED scanVars
    /\ UNCHANGED collectError
    /\ UNCHANGED <<options, live, labels, deploymentData, depOrder,
                   depReplicas, outcome, listCalls, helmCalls, patchCalls>>

\* main(): input() hits end of input and raises EOFError
PromptEndOfInput ==
    /\ pc = "prompt"
    /\ prompted' = TRUE
    /\ pc' = "crashed"
    /\ exitCode' = 1
    /\ UNCHANGED scanVars
    /\ UNCHANGED collectError
    /\ UNCHANGED <<options, live, labels, deploymentData, depOrder, idx,
                   answer, depReplicas, outcome, listCalls, helmCalls,
                   patchCalls>>

\* one call of scaleDeployment from the loop of main()
ScaleDeployment ==
    /\ pc = "apply"
    /\ LET depName == depOrder[idx]
           depDetails == deploymentData[depName]
           target == TargetReplicas(depDetails)
       IN  /\ depReplicas' = DictUpdate(depReplicas, depName, target)
           /\ IF ScaleOutSkips(target, depDetails)
                 \/ ScaleInSkips(target, depDetails)
              THEN /\ outcome' = [outcome EXCEPT ![depName] = "skipped-guard"]
                   /\ pc' = PcAfterScale("nothing", idx = Len(depOrder))
                   /\ UNCHANGED <<live, patchCalls>>
              ELSE \E raised \in PatchRaises :
                   LET ok == raised = "nothing"
                   IN  /\ patchCalls' = Append(patchCalls,
                                               [name |-> depName,
                                                replicas |-> target,
                                                ok |-> ok])
                       /\ live' = IF ok THEN [live EXCEPT ![depName] = target]
                                  ELSE live
                       /\ outcome' = [outcome EXCEPT
                                        ![depName] = IF ok THEN "applied"
                                                     ELSE "failed"]
                       /\ pc' = PcAfterScale(raised, idx = Len(depOrder))
    /\ idx' = IF pc' = "apply" THEN NextIdx(outcome'[depOrder[idx]], idx)
              ELSE IF pc' = "crashed" THEN idx ELSE 0
    /\ exitCode' = IF pc' = "crashed" THEN 1 ELSE ExitCodeAt(pc')
    /\ UNCHANGED scanVars
    /\ UNCHANGED collectError
    /\ UNCHANGED <<options, labels, deploymentData, depOrder, prompted,
                   answer, listCalls, helmCalls>>

\* ------------------------------------------- helmReplicaCount on its own
\* helmReplicaCount about to be called for a deployment of release "app";
\* scanRels is the resource list its fetch will return
ScanInit ==
    /\ scanRels \in ScanLists
    /\ scanName \in DeploymentNames
    /\ scanResult = -2
    /\ options = [namespace |-> Str("default"), scaleIn |-> FALSE,
                  scaleOut |-> FALSE, replicas |-> NoValue,
                  helmCheck |-> TRUE, namespaceWide |-> TRUE, args |-> <<>>]
    /\ live = [n \in DeploymentNames |-> 0]
    /\ labels = [n \in DeploymentNames |-> Str("app")]
    /\ pc = "scan"
    /\ deploymentData = <<>>
    /\ depOrder = <<>>
    /\ idx = 0
    /\ prompted = FALSE
    /\ answer = <<>>
    /\ depReplicas = <<>>
    /\ outcome = <<>>
    /\ listCalls = 0
    /\ helmCalls = <<>>
    /\ patchCalls = <<>>
    /\ exitCode = -1
    /\ collectError = "none"

\* helmReplicaCount fetches the revision, scans it and returns
ScanCall ==
    /\ pc = "scan"
    /\ scanResult = -2
    /\ helmCalls' = Append(helmCalls,
                           [release |-> labels[scanName],
                            deployment |-> scanName])
    /\ scanResult' = helmReplicaCount(scanRels, scanName)
    /\ UNCHANGED <<options, live, labels, pc, deploymentData, depOrder, idx,
                   prompted, answer, depReplicas, outcome, listCalls,
                   patchCalls, exitCode, collectError, scanRels, scanName>>

\* get_current_revision raises: helmReplicaCount does not catch it
ScanFetchFails ==
    /\ pc = "scan"
    /\ scanResult = -2
    /\ helmCalls' = Append(helmCalls,
                           [release |-> labels[scanName],
                            deployment |-> scanName])
    /\ pc' = "crashed"
    /\ exitCode' = 1
    /\ collectError' = "release"
    /\ UNCHANGED <<options, live, labels, deploymentData, depOrder, idx,
                   prompted, answer, depReplicas, outcome, listCalls,
                   patchCalls, scanRels, scanName, scanResult>>

ScanNext == ScanCall \/ ScanFetchFails

ScanSpec == ScanInit /\ [][ScanNext]_vars

Next ==
    \/ Startup
    \/ ListDeployments
    \/ ListDeploymentsFails
    \/ HelmStep
    \/ HelmFetchFails
    \/ Prompt
    \/ PromptEndOfInput
    \/ ScaleDeployment

Spec == Init /\ [][Next]_vars

\* the script runs on and every client call returns or raises; nothing makes
\* the operator answer the prompt
LiveSpec ==
    /\ Spec
    /\ WF_vars(Startup)
    /\ WF_vars(ListDeployments \/ ListDeploymentsFails)
    /\ WF_vars(HelmStep \/ HelmFetchFails)
    /\ WF_vars(ScaleDeployment)

TypeOK ==
    /\ pc \in {"start", "exited", "crashed", "list", "helm", "prompt",
               "apply", "done"}
    /\ DOMAIN deploymentData \subseteq DeploymentNames
    /\ exitCode \in {-1, 0, 1}
    /\ (exitCode = -1) = (pc \in {"start", "list", "helm", "prompt", "apply"})
    /\ DOMAIN depReplicas \subseteq DOMAIN deploymentData
    /\ listCalls \in 0..1


\* ---------------------------------------------------------------- claims
PatchIndexes(d) == {i \in 1..Len(patchCalls) : patchCalls[i].name = d}

Evaluated == DOMAIN depReplicas

\* answers that say yes
AffirmativeAnswers ==
    { Text(<<"y">>), Text(<<"Y">>), Text(<<"y", "e", "s">>),
      Text(<<"Y", "E", "S">>), Text(<<"Y", "e", "s">>) }

\* buildDeploymentData has returned
Collected ==
    /\ listCalls = 1
    /\ pc \in {"prompt", "apply", "done"} \/ prompted
    /\ \A n \in DOMAIN deploymentData : "newReplicas" \in DOMAIN deploymentData[n]

\* C1: in a scale-out run a deployment whose target is not above the
\* collected current count gets no patch call, keeps its live replica count
\* and ends as skipped-guard.
C1_ScaleOutGuard ==
    options.scaleOut =>
        \A d \in Evaluated :
            depReplicas[d] <= deploymentData[d]["curReplicas"] =>
                /\ PatchIndexes(d) = {}
                /\ live[d] = deploymentData[d]["curReplicas"]
                /\ outcome[d] = "skipped-guard"

C1_Witness ==
    /\ options.scaleOut
    /\ pc = "done"
    /\ \E d \in Evaluated :
        /\ depReplicas[d] = deploymentData[d]["curReplicas"]
        /\ outcome[d] = "skipped-guard"
    /\ patchCalls # <<>>

\* C2: in a scale-in run a deployment whose target is not below the
\* collected current count gets no patch call, keeps its live replica count
\* and ends as skipped-guard.
C2_ScaleInGuard ==
    options.scaleIn =>
        \A d \in Evaluated :
            depReplicas[d] >= deploymentData[d]["curReplicas"] =>
                /\ PatchIndexes(d) = {}
                /\ live[d] = deploymentData[d]["curReplicas"]
                /\ outcome[d] = "skipped-guard"

C2_Witness ==
    /\ options.scaleIn
    /\ pc = "done"
    /\ \E d \in Evaluated :
        /\ depReplicas[d] = deploymentData[d]["curReplicas"]
        /\ outcome[d] = "skipped-guard"
    /\ patchCalls # <<>>

\* C3: a run with neither --scale nor --scale-in never issues a patch call.
C3_DryRunNoPatch ==
    (~options.scaleOut /\ ~options.scaleIn) =>
        /\ patchCalls = <<>>
        /\ live = [n \in DeploymentNames |->
                     IF n \in DOMAIN deploymentData
                     THEN deploymentData[n]["curReplicas"] ELSE live[n]]

C3_Witness ==
    /\ ~options.scaleOut /\ ~options.scaleIn
    /\ pc = "done"
    /\ Len(depOrder) = 2
    /\ options.helmCheck
    /\ helmCalls # <<>>

\* C4: a patch call happens only after collection has completed and the
\* operator answered yes; after any other answer there is no patch call and
\* every outcome is still not-evaluated.
C4_ConfirmationGate ==
    /\ patchCalls # <<>> =>
          Collected /\ prompted /\ answer \in AffirmativeAnswers
    /\ (prompted /\ answer \notin AffirmativeAnswers) =>
          /\ patchCalls = <<>>
          /\ \A d \in DOMAIN outcome : outcome[d] = "not-evaluated"

C4_Witness ==
    /\ pc = "done"
    /\ prompted
    /\ answer = Text(<<"o", "k">>)
    /\ Len(depOrder) = 2
    /\ \E d \in DOMAIN deploymentData :
          deploymentData[d]["newReplicas"] > deploymentData[d]["curReplicas"]
    /\ options.scaleOut

\* what scaleDeployment has to have done for d, from d's own data only
SettledAlone(d) ==
    /\ d \in Evaluated
    /\ LET cur == deploymentData[d]["curReplicas"]
           blocked == \/ (options.scaleOut /\ depReplicas[d] <= cur)
                      \/ (options.scaleIn /\ depReplicas[d] >= cur)
       IN  IF blocked
           THEN PatchIndexes(d) = {} /\ outcome[d] = "skipped-guard"
           ELSE /\ Cardinality(PatchIndexes(d)) = 1
                /\ \A i \in PatchIndexes(d) :
                     /\ patchCalls[i].replicas = depReplicas[d]
                     /\ outcome[d] = IF patchCalls[i].ok THEN "applied"
                                     ELSE "failed"

\* C5: a failed patch call marks its deployment failed and the run goes on:
\* the run never dies at a patch call, every deployment the loop has
\* passed is settled by its own guard and its own patch result, and at the
\* end of a confirmed run that holds for every deployment of the signal set.
C5_FailureIsolation ==
    /\ patchCalls # <<>> => pc \in {"apply", "done"}
    /\ (pc = "apply") =>
          \A k \in 1..(idx - 1) : SettledAlone(depOrder[k])
    /\ (pc = "done" /\ prompted /\ answer \in AffirmativeAnswers) =>
          \A k \in 1..Len(depOrder) : SettledAlone(depOrder[k])

\* --replicas was given a count
ReplicasSupplied == options.replicas # NoValue

\* the default D: the supplied count, else 1
D == IF ReplicasSupplied THEN int(options.replicas) ELSE 1

\* d has a resolved autoscaler floor in the signal set
HasFloor(d) ==
    /\ options.helmCheck
    /\ "helmReplicas" \in DOMAIN deploymentData[d]
    /\ deploymentData[d]["helmReplicas"] >= 0

Floor(d) == deploymentData[d]["helmReplicas"]

\* C6: the target the guard compares and a patch call carries is never
\* negative.
C6_TargetNonNegative ==
    /\ \A d \in Evaluated : depReplicas[d] >= 0
    /\ \A i \in 1..Len(patchCalls) : patchCalls[i].replicas >= 0

\* C7: with the release check on, a resolved floor and no conflicting
\* explicit count, the planned newReplicas and the target of the guard and
\* the patch equal the floor.
C7_FloorIsTarget ==
    \A d \in DOMAIN deploymentData :
        (HasFloor(d) /\ ~(ReplicasSupplied /\ D # Floor(d))) =>
            /\ "newReplicas" \in DOMAIN deploymentData[d] =>
                  deploymentData[d]["newReplicas"] = Floor(d)
            /\ d \in Evaluated => depReplicas[d] = Floor(d)
            /\ \A i \in PatchIndexes(d) : patchCalls[i].replicas = Floor(d)

\* C8: with the release check on, a floor present and an explicit count D
\* that differs from it, the target is D.
C8_UserOverridesFloor ==
    \A d \in DOMAIN deploymentData :
        (HasFloor(d) /\ ReplicasSupplied /\ D # Floor(d)) =>
            /\ "newReplicas" \in DOMAIN deploymentData[d] =>
                  deploymentData[d]["newReplicas"] = D
            /\ d \in Evaluated => depReplicas[d] = D
            /\ \A i \in PatchIndexes(d) : patchCalls[i].replicas = D

C8_Witness ==
    \E d \in Evaluated :
        /\ HasFloor(d) /\ ReplicasSupplied
        /\ Floor(d) = 1 /\ D = 2
        /\ depReplicas[d] = 2
        /\ PatchIndexes(d) # {}

\* d has no autoscaler floor: check disabled, no release label, or no
\* autoscaler of the release targets d
NoFloor(d) ==
    \/ ~options.helmCheck
    \/ deploymentData[d]["helmRelease"] = None
    \/ /\ "helmReplicas" \in DOMAIN deploymentData[d]
       /\ deploymentData[d]["helmReplicas"] = -1

\* C9: a deployment without an autoscaler floor gets the default D as its
\* target, D being the supplied count (0 included) or 1.
C9_NoFloorGivesDefault ==
    \A d \in Evaluated :
        NoFloor(d) =>
            /\ depReplicas[d] = D
            /\ \A i \in PatchIndexes(d) : patchCalls[i].replicas = D

C9_Witness ==
    /\ options.replicas = Text(<<"0">>)
    /\ options.scaleIn
    /\ \E d \in Evaluated :
        /\ NoFloor(d)
        /\ depReplicas[d] = 0
        /\ \E i \in PatchIndexes(d) : patchCalls[i].replicas = 0
    /\ \E d \in Evaluated :
        /\ options.helmCheck
        /\ deploymentData[d]["helmRelease"] # None
        /\ deploymentData[d]["helmReplicas"] = -1

\* the four fatal configuration errors
NamespaceMissing == options.namespace = None
BothDirections == options.scaleIn /\ options.scaleOut
CheckOffWithoutReplicas == ~options.helmCheck /\ ~ReplicasSupplied
NothingSelected ==
    /\ options.scaleIn \/ options.scaleOut
    /\ options.args = <<>>
    /\ ~options.namespaceWide

\* C10: under any of the four fatal configuration errors the run ends
\* without a list-deployments, release-fetch or patch call.
C10_ConfigErrorNoCalls ==
    (NamespaceMissing \/ BothDirections \/ CheckOffWithoutReplicas
        \/ NothingSelected) =>
        /\ pc \in {"start", "exited"}
        /\ listCalls = 0
        /\ helmCalls = <<>>
        /\ patchCalls = <<>>

C10_Witness ==
    /\ pc = "exited"
    /\ CheckOffWithoutReplicas
    /\ ~NamespaceMissing /\ ~BothDirections /\ ~NothingSelected


\* C11: when the list call or a release fetch fails the run is over: no
\* signal set is returned, no prompt is shown and no patch call is issued.
C11_CollectionErrorFatal ==
    collectError # "none" =>
        /\ pc = "crashed"
        /\ ~Collected
        /\ ~prompted
        /\ patchCalls = <<>>

C11_Witness ==
    /\ collectError = "release"
    /\ Len(helmCalls) = 2
    /\ "newReplicas" \in DOMAIN deploymentData[depOrder[1]]
    /\ options.scaleOut
    /\ pc = "crashed"


\* the names given as positional arguments
ArgNames == {options.args[i] : i \in 1..Len(options.args)}

\* C12: with positional deployment names the working set is limited to
\* them, with or without --namespace-wide: a deployment outside the names
\* has no signal entry, no release fetch and no patch call.
C12_ArgsRestrictWorkingSet ==
    options.args # <<>> =>
        /\ DOMAIN deploymentData \subseteq ArgNames
        /\ \A i \in 1..Len(depOrder) : depOrder[i] \in ArgNames
        /\ \A i \in 1..Len(helmCalls) : helmCalls[i].deployment \in ArgNames
        /\ \A i \in 1..Len(patchCalls) : patchCalls[i].name \in ArgNames

C12_Witness ==
    /\ options.args = <<"web">>
    /\ options.namespaceWide
    /\ options.scaleOut
    /\ pc = "done"
    /\ DOMAIN deploymentData = {"web"}
    /\ Len(helmCalls) = 1
    /\ Len(patchCalls) = 1
    /\ labels["api"] # None
    /\ live["api"] = 0


\* the run was confirmed and has ended: main() returned, or an exception of
\* a patch call left it
ConfirmedRunEnded ==
    prompted /\ answer \in AffirmativeAnswers /\ pc \in {"done", "crashed"}

\* the target scaleDeployment computes for d passes the directional guard
PassesGuard(d) ==
    LET target == TargetReplicas(deploymentData[d])
        cur == deploymentData[d]["curReplicas"]
    IN  \/ (options.scaleOut /\ target > cur)
        \/ (options.scaleIn /\ target < cur)

\* C13: when a confirmed scaling run has ended, every deployment of the
\* working set whose target passes the guard has a patch call carrying
\* exactly that target; with target 0 on scale-in a deployment is patched,
\* to 0, exactly when its current count is above 0.
C13_ApplyCompleteness ==
    ConfirmedRunEnded =>
        \A k \in 1..Len(depOrder) :
            LET d == depOrder[k]
                target == TargetReplicas(deploymentData[d])
            IN  /\ PassesGuard(d) =>
                      /\ PatchIndexes(d) # {}
                      /\ \A i \in PatchIndexes(d) :
                            patchCalls[i].replicas = target
                /\ (options.scaleIn /\ target = 0) =>
                      /\ (PatchIndexes(d) # {}) =
                            (deploymentData[d]["curReplicas"] > 0)
                      /\ \A i \in PatchIndexes(d) : patchCalls[i].replicas = 0


\* some patch call of the run failed
SomeFailed == \E d \in DOMAIN outcome : outcome[d] = "failed"

\* C14: a run that reaches the report exits with status 0 exactly when no
\* deployment failed.
C14_ExitReflectsFailure ==
    pc = "done" => ((exitCode = 0) = ~SomeFailed)

\* C15: a fatal configuration error ends the process with a non-zero exit
\* status.
C15_ConfigErrorExitsNonZero ==
    pc = "exited" => exitCode # 0


\* C16: every patch call carries the newReplicas value its deployment had in
\* the plan shown at the confirmation prompt.
C16_PatchMatchesPlan ==
    \A i \in 1..Len(patchCalls) :
        /\ patchCalls[i].name \in DOMAIN deploymentData
        /\ patchCalls[i].replicas =
              deploymentData[patchCalls[i].name]["newReplicas"]

C16_Witness ==
    \E i \in 1..Len(patchCalls) :
        LET d == patchCalls[i].name
        IN  /\ HasFloor(d)
            /\ Floor(d) = 2
            /\ deploymentData[d]["newReplicas"] = 1
            /\ patchCalls[i].replicas = 1


\* C17: a deployment gets at most one patch call: a skipped deployment has
\* none, an applied or failed one has exactly one, and a failed call is not
\* repeated.
C17_AtMostOnePatch ==
    /\ Len(patchCalls) <= Len(depOrder)
    /\ \A d \in DeploymentNames : Cardinality(PatchIndexes(d)) <= 1
    /\ \A d \in DOMAIN outcome :
        /\ outcome[d] \in {"not-evaluated", "skipped-guard"} =>
              PatchIndexes(d) = {}
        /\ outcome[d] \in {"applied", "failed"} =>
              Cardinality(PatchIndexes(d)) = 1

C17_Witness ==
    /\ pc = "done"
    /\ Len(depOrder) = 2
    /\ outcome[depOrder[1]] = "failed"
    /\ outcome[depOrder[2]] = "skipped-guard"
    /\ Len(patchCalls) = 1


ReleaseFetches(d) == {i \in 1..Len(helmCalls) : helmCalls[i].deployment = d}

\* C18: in the signal set a deployment has a helmReplicas entry only if the
\* release check is on and the deployment carries the release label; with
\* the check off or the label missing there is no entry and no release
\* fetch for that deployment.
C18_FloorOnlyWithRelease ==
    \A d \in DeploymentNames :
        /\ (d \in DOMAIN deploymentData
              /\ "helmReplicas" \in DOMAIN deploymentData[d]) =>
              (options.helmCheck /\ labels[d] # None)
        /\ (~options.helmCheck \/ labels[d] = None) =>
              /\ ReleaseFetches(d) = {}
              /\ d \in DOMAIN deploymentData =>
                    "helmReplicas" \notin DOMAIN deploymentData[d]

C18_Witness ==
    /\ Collected
    /\ options.helmCheck
    /\ Len(depOrder) = 2
    /\ labels[depOrder[1]] = None
    /\ labels[depOrder[2]] # None
    /\ "helmReplicas" \notin DOMAIN deploymentData[depOrder[1]]
    /\ deploymentData[depOrder[2]]["helmReplicas"] = 2
    /\ Len(helmCalls) = 1


\* positions of the autoscaler resources of the list that target scanName
ScanMatches ==
    {i \in 1..Len(scanRels) :
        /\ scanRels[i] # None
        /\ scanRels[i].kind = "HorizontalPodAutoscaler"
        /\ scanRels[i].name = scanName}

LastOf(S) == CHOOSE i \in S : \A j \in S : j <= i

\* C19: when several autoscaler resources of the list target the
\* deployment, helmReplicaCount returns the minReplicas of the last of them.
C19_LastMatchWins ==
    (scanResult # -2 /\ Cardinality(ScanMatches) >= 2) =>
        scanResult = scanRels[LastOf(ScanMatches)].minReplicas


DryRun == ~options.scaleIn /\ ~options.scaleOut

Terminated == pc \in {"done", "exited", "crashed"}

\* C20: a dry-run never waits for confirmation or applies: the step that
\* ends collection ends the run, no input is requested, and the run always
\* terminates; the prompt is reached only in a scale-out or scale-in run.
C20_DryRunDriver ==
    /\ [](DryRun => (pc \notin {"prompt", "apply"} /\ ~prompted))
    /\ []((pc = "prompt" \/ prompted) => (options.scaleIn \/ options.scaleOut))
    /\ [][(DryRun /\ pc \in {"list", "helm"} /\ pc' \notin {"list", "helm"})
            => pc' \in {"done", "crashed"}]_vars
    /\ (DryRun ~> Terminated)

C20_Witness ==
    /\ DryRun
    /\ pc = "done"
    /\ exitCode = 0
    /\ ~prompted
    /\ Len(helmCalls) = 2
    /\ options.replicas = Text(<<"2">>)

====
